---- MODULE Spec2Model ----
(***************************************************************************)
(* A model of solver.go: the Board methods Solved and Valid, Copy, and the *)
(* recursive backtracking search SolveIt.                                  *)
(*                                                                         *)
(* A Board is a struct holding one slice of slices, so a Board VALUE is a  *)
(* reference to storage.  The model keeps that storage in `heap`: a Board  *)
(* is an address into heap (0 is Board{}, whose vals is nil), and two      *)
(* Boards with the same address share their cells.  Copy is the only       *)
(* operation that makes fresh storage.  SolveIt is executed step by step   *)
(* on an explicit call stack of frames.                                    *)
(***************************************************************************)
EXTENDS Integers, Sequences, FiniteSets

VARIABLES
    heap,    \* storage of every [][]uint8 made so far: address -> grid
    stack,   \* active SolveIt calls, outermost first
    ret,     \* what the outermost SolveIt returned to main
    input,   \* the cells of the grid main passed to SolveIt
    solutions, \* the valid completions of that grid (observed, never read by the program)
    cp       \* the Copy exercise: the two Boards and the cells they should hold

vars == <<heap, stack, ret, input, solutions, cp>>

----------------------------------------------------------------------------
(* Values of the program *)

Unk == 0

Nil == "nil"
InvalidBoard == "InvalidBoard"
CannotSolveBoardError == "CannotSolveBoard"

NoBoard == 0   \* Board{}: vals is nil

----------------------------------------------------------------------------
(* Bounds of the model *)

MaxHoles == 4       \* cells blanked in an input of SolveIt
MaxGridHoles == 2   \* cells blanked in a starting grid of the Copy exercise
MaxWrites == 2      \* cell writes in the Copy exercise

----------------------------------------------------------------------------
(* Board methods.  A grid is a sequence of rows; the code's 0-based index  *)
(* pair (i, j) is cell g[i+1][j+1].                                        *)

Range(s) == {s[x] : x \in DOMAIN s}

Vals(h, a) == IF a = NoBoard THEN <<>> ELSE h[a]

Solved(g) ==
    \A i \in 1..Len(g) : \A j \in 1..Len(g[i]) : g[i][j] # Unk

\* The loop returns false at the first position x whose value is not Unk and
\* is already in the map, that is, stands at an earlier position.
validSet(r) ==
    \A x \in 1..Len(r) : r[x] # Unk => \A y \in 1..(x - 1) : r[y] # r[x]

\* variant: the right-hand boundary one column off (c > 6 for c > 5)
whichPodShifted(r, c) ==
    IF r < 3 THEN (IF c < 3 THEN 0 ELSE IF c > 6 THEN 2 ELSE 1)
    ELSE IF r > 5 THEN (IF c < 3 THEN 6 ELSE IF c > 6 THEN 8 ELSE 7)
    ELSE (IF c < 3 THEN 3 ELSE IF c > 6 THEN 5 ELSE 4)

whichPod(r, c) ==
    IF r < 3 THEN (IF c < 3 THEN 0 ELSE IF c > 5 THEN 2 ELSE 1)
    ELSE IF r > 5 THEN (IF c < 3 THEN 6 ELSE IF c > 5 THEN 8 ELSE 7)
    ELSE (IF c < 3 THEN 3 ELSE IF c > 5 THEN 5 ELSE 4)

validRows(g) == \A r \in 1..Len(g) : validSet(g[r])

\* cols[c] collects b.vals[r][c] for r ascending
validCols(g) ==
    \A c \in 0..(Len(g) - 1) : validSet([r \in 1..Len(g) |-> g[r][c + 1]])

\* the 0-based cells (r, c) in the order the nested loops visit them
RowMajor(g) ==
    [x \in 1..(Len(g) * Len(g)) |-> <<(x - 1) \div Len(g), (x - 1) % Len(g)>>]

\* pods[p] collects b.vals[r][c], in loop order, for the cells with
\* whichPod(r, c) = p.  (Each pod is bound by a quantifier over a one-element
\* set, which evaluates it once.)  On the 9x9 grids modelled here every
\* index whichPod returns is below len(pods).
validPods(g) ==
    \A p \in 0..(Len(g) - 1) :
        \A in \in {SelectSeq(RowMajor(g), LAMBDA x : whichPod(x[1], x[2]) = p)} :
            validSet([y \in 1..Len(in) |-> g[in[y][1] + 1][in[y][2] + 1]])

Valid(g) == validRows(g) /\ validCols(g) /\ validPods(g)

\* variant: the Board value is returned as it is, sharing its slices
CopyShallow(h, b) == [heap |-> h, board |-> b]

\* variant: ans.vals[i][j] = b.vals[j][i]
CopyTransposed(h, b) ==
    LET n == Len(Vals(h, b))
        ans == [i \in 1..n |-> [j \in 1..n |-> Vals(h, b)[j][i]]]
    IN  [heap |-> Append(h, ans), board |-> Len(h) + 1]

\* Copy allocates fresh rows and copies every cell; the result is the new
\* heap and the address of the copy.
Copy(h, b) ==
    LET n == Len(Vals(h, b))
        ans == [i \in 1..n |-> [j \in 1..n |-> Vals(h, b)[i][j]]]
    IN  [heap |-> Append(h, ans), board |-> Len(h) + 1]

----------------------------------------------------------------------------
(* The grids SolveIt is run on: a solved 9x9 grid with at most MaxHoles of *)
(* the cells HoleCells blanked and, optionally, one of the cells EditCells *)
(* overwritten with a digit.  The family holds complete and incomplete,    *)
(* valid and invalid grids, grids with one completion, with two and with   *)
(* none.  Cells are named by the code's 0-based (row, column).             *)

Base ==
    << <<5, 3, 4, 6, 7, 8, 9, 1, 2>>,
       <<6, 7, 2, 1, 9, 5, 3, 4, 8>>,
       <<1, 9, 8, 3, 4, 2, 5, 6, 7>>,
       <<8, 5, 9, 7, 6, 1, 4, 2, 3>>,
       <<4, 2, 6, 8, 5, 3, 7, 9, 1>>,
       <<7, 1, 3, 9, 2, 4, 8, 5, 6>>,
       <<9, 6, 1, 5, 3, 7, 2, 8, 4>>,
       <<2, 8, 7, 4, 1, 9, 6, 3, 5>>,
       <<3, 4, 5, 2, 8, 6, 1, 7, 9>> >>

HoleCells == {<<0, 6>>, <<1, 3>>, <<2, 4>>, <<2, 5>>, <<5, 4>>, <<5, 5>>, <<7, 3>>}
EditCells == {<<2, 3>>}
Digits(g) == 1..Len(g)

SetCell(g, i, j, v) == [g EXCEPT ![i + 1][j + 1] = v]

Blank(g, H) ==
    [r \in 1..Len(g) |->
        [c \in 1..Len(g) |-> IF <<r - 1, c - 1>> \in H THEN Unk ELSE g[r][c]]]

HoleGrids(max) ==
    {Blank(Base, H) : H \in {H \in SUBSET HoleCells : Cardinality(H) <= max}}

Inputs ==
    HoleGrids(MaxHoles) \cup
    {SetCell(g, x[1], x[2], v) : g \in HoleGrids(MaxHoles), x \in EditCells, v \in Digits(Base)}

----------------------------------------------------------------------------
(* The rules of the game, stated without the code: what the properties     *)
(* below compare the program against.                                      *)

Cells(g) == (1..Len(g)) \X (1..Len(g))

\* the sub-region of the 0-based cell (r, c) of a 9x9 grid
PodOf(r, c) == 3 * (r \div 3) + (c \div 3)

SameRow(x, y) == x[1] = y[1]
SameCol(x, y) == x[2] = y[2]
SamePod(x, y) == PodOf(x[1] - 1, x[2] - 1) = PodOf(y[1] - 1, y[2] - 1)

\* no nonzero value twice among the cells xs of g
Distinct(g, xs) ==
    \A x \in xs : g[x[1]][x[2]] # 0 =>
        \A y \in xs : y # x => g[y[1]][y[2]] # g[x[1]][x[2]]

RowsDistinct(g) ==
    \A r \in 1..Len(g) : Distinct(g, {r} \X (1..Len(g)))

ColsDistinct(g) ==
    \A c \in 1..Len(g) : Distinct(g, (1..Len(g)) \X {c})

PodsDistinct(g) ==
    \A p \in 0..(Len(g) - 1) : Distinct(g, {x \in Cells(g) : PodOf(x[1] - 1, x[2] - 1) = p})

RulesHold(g) == RowsDistinct(g) /\ ColsDistinct(g) /\ PodsDistinct(g)

UnkCells(g) == {x \in Cells(g) : g[x[1]][x[2]] = 0}

NumUnk(g) == Cardinality(UnkCells(g))

\* h keeps every nonzero cell of g and has a digit wherever g has 0
Extends(g, h) ==
    /\ Len(h) = Len(g)
    /\ \A x \in Cells(g) :
          IF g[x[1]][x[2]] # 0 THEN h[x[1]][x[2]] = g[x[1]][x[2]]
          ELSE h[x[1]][x[2]] \in 1..Len(g)

\* the digits a completion can put at the unknown cell x: those no given
\* cell of its row, column or sub-region already holds
Free(g, x) ==
    {v \in 1..Len(g) :
        \A y \in Cells(g) :
            (SameRow(x, y) \/ SameCol(x, y) \/ SamePod(x, y)) => g[y[1]][y[2]] # v}

\* every way to put a free digit at each of the cells xs
RECURSIVE Fills(_, _, _)
Fills(g, h, xs) ==
    IF xs = {} THEN {h}
    ELSE LET x == CHOOSE y \in xs : TRUE
         IN  UNION {Fills(g, [h EXCEPT ![x[1]][x[2]] = v], xs \ {x}) : v \in Free(g, x)}

\* the valid completions of g
Completions(g) ==
    IF RulesHold(g) THEN {h \in Fills(g, g, UnkCells(g)) : RulesHold(h)} ELSE {}

\* the cells of g read in row-major order
Flat(g) == [x \in 1..(Len(g) * Len(g)) |-> g[((x - 1) \div Len(g)) + 1][((x - 1) % Len(g)) + 1]]

LexLeq(g, h) ==
    \/ g = h
    \/ \E x \in 1..(Len(g) * Len(g)) :
          /\ Flat(g)[x] < Flat(h)[x]
          /\ \A y \in 1..(x - 1) : Flat(g)[y] = Flat(h)[y]

\* the first unknown cell of g in row-major order, as the code's (i, j)
FirstUnk(g) ==
    CHOOSE x \in {<<y[1] - 1, y[2] - 1>> : y \in UnkCells(g)} :
        \A y \in UnkCells(g) : y[1] - 1 > x[1] \/ (y[1] - 1 = x[1] /\ y[2] - 1 >= x[2])

----------------------------------------------------------------------------
(* SolveIt, one frame per active call.                                     *)
(*   pc     where the call is: "entry" (line 137), "scan" (the loops of    *)
(*          lines 149-151), "try" (the loop head of line 153), "call"      *)
(*          (waiting in line 155), "check" (line 156)                      *)
(*   b      the argument Board;  bnew  the clone;  i, j, k  the loop       *)
(*          variables;  bn, e  what the last recursive call returned       *)
(*   entry  the cells of b when the call began;  calls  the recursive      *)
(*          calls it has made so far (both only observed, never read by    *)
(*          the program)                                                   *)

Frame(board, cells) ==
    [pc |-> "entry", b |-> board, bnew |-> NoBoard, i |-> 0, j |-> 0, k |-> 0,
     bn |-> NoBoard, e |-> Nil, entry |-> cells, calls |-> 0]

Top == stack[Len(stack)]

SetTop(f) == [stack EXCEPT ![Len(stack)] = f]

\* `return board, err`: the frame is popped and the caller's `bn, e :=`
\* (line 155) or main's `solvedBoard, e :=` (line 296) receives the pair.
Return(board, err) ==
    IF Len(stack) = 1
    THEN /\ stack' = <<>>
         /\ ret' = [done |-> TRUE, b |-> board, e |-> err]
    ELSE /\ stack' = [SubSeq(stack, 1, Len(stack) - 1) EXCEPT
                        ![Len(stack) - 1] = [@ EXCEPT !.bn = board, !.e = err, !.pc = "check"]]
         /\ UNCHANGED ret

\* variant: `case s:` for `case s && v:`
BaseCaseSolvedOnly(s, v) == s

\* line 141: case s && v
BaseCase(s, v) == s /\ v

\* lines 137-147: the switch
SolveItEntry ==
    /\ stack # <<>>
    /\ Top.pc = "entry"
    /\ LET g == Vals(heap, Top.b)
           s == Solved(g)
           v == Valid(g)
       IN  IF BaseCase(s, v)
           THEN Return(Top.b, Nil) /\ UNCHANGED heap
           ELSE IF ~v
           THEN Return(NoBoard, InvalidBoard) /\ UNCHANGED heap
           ELSE LET c == Copy(heap, Top.b)
                IN  /\ heap' = c.heap
                    /\ stack' = SetTop([Top EXCEPT !.bnew = c.board, !.i = 0, !.j = 0,
                                                   !.pc = "scan"])
                    /\ UNCHANGED ret
    /\ UNCHANGED <<input, solutions, cp>>

\* the loop variables after the body of the inner loop at (i, j)
NextCell(g, i, j) ==
    IF j + 1 < Len(g[i + 1]) THEN <<i, j + 1>> ELSE <<i + 1, 0>>

\* variant: the error of the last recursive call is passed on
ExhaustedErrLast(f) == IF f.e # Nil THEN f.e ELSE CannotSolveBoardError

\* line 166: new(CannotSolveBoardError)
ExhaustedErr(f) == CannotSolveBoardError

\* lines 149-151 and 165-166: one iteration of the scan for an Unk
FindUnk ==
    /\ stack # <<>>
    /\ Top.pc = "scan"
    /\ LET f == Top
           g == Vals(heap, f.b)
       IN  IF f.i >= Len(g)
           THEN Return(NoBoard, ExhaustedErr(f))
           ELSE IF Vals(heap, f.bnew)[f.i + 1][f.j + 1] = Unk
           THEN stack' = SetTop([f EXCEPT !.k = 1, !.pc = "try"]) /\ UNCHANGED ret
           ELSE LET n == NextCell(g, f.i, f.j)
                IN  stack' = SetTop([f EXCEPT !.i = n[1], !.j = n[2]]) /\ UNCHANGED ret
    /\ UNCHANGED <<heap, input, solutions, cp>>

\* variant: k < uint8(len(bnew.vals))
KInRangeStrict(k, n) == k < n % 256

\* k <= uint8(len(bnew.vals))
KInRange(k, n) == k <= n % 256

\* variant: bnew.vals[i][j] = k - 1
AssignCellOffByOne(h, f, v) == [h EXCEPT ![f.bnew][f.i + 1][f.j + 1] = v - 1]

\* variant: b.vals[i][j] = k
AssignCellToArgument(h, f, v) == [h EXCEPT ![f.b][f.i + 1][f.j + 1] = v]

\* variant: bnew.vals[i][j] = len(bnew.vals) + 1 - k
AssignCellDescending(h, f, v) ==
    [h EXCEPT ![f.bnew][f.i + 1][f.j + 1] = Len(h[f.bnew]) + 1 - v]

\* line 154: bnew.vals[i][j] = k
AssignCell(h, f, v) == [h EXCEPT ![f.bnew][f.i + 1][f.j + 1] = v]

\* lines 153-155: the loop head, the assignment and the recursive call
TryValue ==
    /\ stack # <<>>
    /\ Top.pc = "try"
    /\ LET f == Top
           g == Vals(heap, f.bnew)
       IN  IF KInRange(f.k, Len(g))
           THEN LET h == AssignCell(heap, f, f.k)
                IN  /\ heap' = h
                    /\ stack' = Append(SetTop([f EXCEPT !.pc = "call", !.calls = @ + 1]),
                                       Frame(f.bnew, Vals(h, f.bnew)))
           ELSE LET n == NextCell(Vals(heap, f.b), f.i, f.j)
                IN  /\ stack' = SetTop([f EXCEPT !.i = n[1], !.j = n[2], !.pc = "scan"])
                    /\ UNCHANGED heap
    /\ UNCHANGED <<ret, input, solutions, cp>>

\* lines 156-158 and the k++ of line 153
CheckResult ==
    /\ stack # <<>>
    /\ Top.pc = "check"
    /\ LET f == Top
           g == Vals(heap, f.bn)
       IN  IF f.e = Nil /\ Solved(g) /\ Valid(g)
           THEN Return(f.bn, Nil)
           ELSE stack' = SetTop([f EXCEPT !.k = (@ + 1) % 256, !.pc = "try"]) /\ UNCHANGED ret
    /\ UNCHANGED <<heap, input, solutions, cp>>

NoCopy ==
    [src |-> NoBoard, dst |-> NoBoard, wantSrc |-> <<>>, wantDst |-> <<>>,
     writes |-> 0, toSrc |-> 0, toDst |-> 0]

Init ==
    /\ input \in Inputs
    /\ solutions = Completions(input)
    /\ heap = <<input>>
    /\ stack = <<Frame(1, input)>>
    /\ ret = [done |-> FALSE, b |-> NoBoard, e |-> Nil]
    /\ cp = NoCopy

Next == SolveItEntry \/ FindUnk \/ TryValue \/ CheckResult

Spec == Init /\ [][Next]_vars

\* main runs SolveIt to its end: a call that can take a step takes it
FairSpec == Spec /\ WF_vars(Next)

----------------------------------------------------------------------------
(* The Copy exercise: a grid, one Copy of it, and at most MaxWrites cell   *)
(* writes through either Board, before or after the Copy.  cp.wantSrc and  *)
(* cp.wantDst are the cells each Board should hold if the two are          *)
(* independent values: a write through one Board changes only its own.     *)

WriteCells == {<<1, 3>>, <<1, 7>>, <<2, 3>>}
WriteVals == {Unk, 4}

GridInit ==
    /\ input \in HoleGrids(MaxGridHoles)
    /\ solutions = {}
    /\ heap = <<input>>
    /\ stack = <<>>
    /\ ret = [done |-> FALSE, b |-> NoBoard, e |-> Nil]
    /\ cp = [src |-> 1, dst |-> NoBoard, wantSrc |-> input, wantDst |-> <<>>,
             writes |-> 0, toSrc |-> 0, toDst |-> 0]

CopyBoard ==
    /\ cp.dst = NoBoard
    /\ LET c == Copy(heap, cp.src)
       IN  /\ heap' = c.heap
           /\ cp' = [cp EXCEPT !.dst = c.board, !.wantDst = heap[cp.src]]
    /\ UNCHANGED <<stack, ret, input, solutions>>

WriteSource ==
    /\ cp.writes < MaxWrites
    /\ \E x \in WriteCells, v \in WriteVals :
          /\ heap' = [heap EXCEPT ![cp.src] = SetCell(@, x[1], x[2], v)]
          /\ cp' = [cp EXCEPT !.wantSrc = SetCell(@, x[1], x[2], v),
                              !.writes = @ + 1,
                              !.toSrc = IF cp.dst = NoBoard THEN @ ELSE @ + 1]
    /\ UNCHANGED <<stack, ret, input, solutions>>

WriteCopy ==
    /\ cp.writes < MaxWrites
    /\ cp.dst # NoBoard
    /\ \E x \in WriteCells, v \in WriteVals :
          /\ heap' = [heap EXCEPT ![cp.dst] = SetCell(@, x[1], x[2], v)]
          /\ cp' = [cp EXCEPT !.wantDst = SetCell(@, x[1], x[2], v),
                              !.writes = @ + 1, !.toDst = @ + 1]
    /\ UNCHANGED <<stack, ret, input, solutions>>

GridNext == CopyBoard \/ WriteSource \/ WriteCopy

GridSpec == GridInit /\ [][GridNext]_vars

AtStart == Len(stack) = 1 /\ stack[1].pc = "entry" /\ ~ret.done
Success == ret.done /\ ret.e = Nil
Result == Vals(heap, ret.b)

Frames == Range(stack)

----------------------------------------------------------------------------
(* Properties *)

\* C1: when main passes SolveIt a grid that breaks no rule, is incomplete
\* and has at least one valid completion, the call terminates and returns a
\* nil error with a grid on which Solved() and Valid() are both true.
C1_SolvableInput ==
    AtStart /\ ~Solved(input) /\ RulesHold(input) /\ solutions # {}

C1_SolvableIsSolved ==
    C1_SolvableInput ~> (Success /\ Solved(Result) /\ Valid(Result))

\* reached: a success on an incomplete input after more clones than the input
\* has unknown cells, so at least one rule-abiding candidate had to be undone
C1_Witness ==
    Success /\ ~Solved(input) /\ Solved(Result) /\ Len(heap) - 1 > NumUnk(input)

\* C2: when main passes SolveIt a grid that breaks no rule but has no valid
\* completion, the call terminates and returns CannotSolveBoard with no grid:
\* never a success and never InvalidBoard.
C2_UnsolvableInput ==
    AtStart /\ RulesHold(input) /\ solutions = {}

C2_UnsolvableIsCannotSolve ==
    C2_UnsolvableInput ~> (ret.done /\ ret.e = CannotSolveBoardError /\ ret.b = NoBoard)

\* reached: CannotSolveBoard returned to main after a sub-call had its own
\* clone (it failed by exhaustion) and other sub-calls failed as InvalidBoard
C2_Witness ==
    /\ ret.done /\ ret.e = CannotSolveBoardError
    /\ RulesHold(input)
    /\ Len(heap) > 2

\* C3: on a grid that breaks a rule, complete or not, SolveIt returns
\* InvalidBoard in its first step: nothing is cloned, no cell is assigned, no
\* recursive call is made, and no grid is returned.
C3_InvalidIsRejected ==
    ~RulesHold(input) =>
        /\ heap = <<input>>
        /\ AtStart \/ ret.done
        /\ \A f \in Frames : f.calls = 0 /\ f.bnew = NoBoard
        /\ ret.done => ret.e = InvalidBoard /\ ret.b = NoBoard

\* reached: a complete grid that breaks a rule, rejected
C3_Witness ==
    ret.done /\ ret.e = InvalidBoard /\ Solved(input) /\ ~RulesHold(input)

\* C4: on every 9x9 grid, Valid() is true exactly when no row, no column and
\* no 3x3 sub-region 3*(r/3)+(c/3) holds the same nonzero value twice; cells
\* holding 0 never make a grid invalid.
C4_ValidIsRules ==
    \A a \in DOMAIN heap : Valid(heap[a]) <=> RulesHold(heap[a])

\* reached: one grid whose only duplicate lies in a sub-region, its rows and
\* columns being duplicate-free, and one grid that Valid accepts although
\* two of its cells in one row or column hold 0
C4_Witness ==
    /\ \E a \in DOMAIN heap :
          /\ RowsDistinct(heap[a]) /\ ColsDistinct(heap[a]) /\ ~PodsDistinct(heap[a])
          /\ ~Valid(heap[a])
    /\ \E a \in DOMAIN heap :
          /\ Valid(heap[a])
          /\ \E x, y \in UnkCells(heap[a]) : x # y /\ (SameRow(x, y) \/ SameCol(x, y))

\* C5: the Board Copy returns holds the cells of its argument and shares no
\* storage with it: whatever is then written through either Board, the other
\* keeps its cells.
C5_CopyIsIndependent ==
    cp.dst # NoBoard =>
        /\ cp.dst # cp.src
        /\ heap[cp.src] = cp.wantSrc
        /\ heap[cp.dst] = cp.wantDst

\* reached: after the Copy, a write through each Board, the two now differing
C5_Witness ==
    /\ cp.dst # NoBoard
    /\ cp.toSrc >= 1 /\ cp.toDst >= 1
    /\ heap[cp.src] # heap[cp.dst]

\* C6: a SolveIt call assigns candidates only to the first unknown cell (in
\* row-major order) of its argument, and so makes at most N recursive calls.
C6_OnlyFirstUnknown ==
    \A f \in Frames :
        /\ f.pc \in {"try", "call", "check"} => <<f.i, f.j>> = FirstUnk(f.entry)
        /\ f.calls <= Len(f.entry)

\* C7: the number of active SolveIt calls below main's call never exceeds the
\* number of unknown cells of main's grid, and every recursive call receives
\* a grid with strictly fewer unknown cells than its caller's.
C7_DepthBounded ==
    /\ Len(stack) - 1 <= NumUnk(input)
    /\ \A d \in 2..Len(stack) : NumUnk(stack[d].entry) < NumUnk(stack[d - 1].entry)

\* reached: as many nested calls as main's grid has unknown cells
C7_Witness ==
    NumUnk(input) >= 3 /\ Len(stack) - 1 = NumUnk(input)

\* C8: SolveIt never writes to the grid it was passed.  In every step, the
\* only storage whose cells change is the clone of the executing call, which
\* is the argument of no active call; every active call's argument, and
\* main's grid, hold the cells they held at entry; and when a call returns,
\* its caller's clone holds what the caller had put there.
C8_Step ==
    /\ \A a \in DOMAIN heap :
          heap'[a] # heap[a] =>
              /\ a = Top.bnew
              /\ \A f \in Frames : f.b # a
    /\ \A f \in Range(stack') : Vals(heap', f.b) = f.entry
    /\ heap'[1] = input
    /\ (Len(stack') < Len(stack) /\ stack' # <<>>)
          => Vals(heap', stack'[Len(stack')].bnew) = Top.entry

C8_ArgumentUntouched == [][C8_Step]_vars

\* reached: a caller has got CannotSolveBoard back from a candidate whose
\* sub-search cloned and assigned, and moves to its next candidate
C8_Witness ==
    \E f \in Frames :
        /\ f.pc = "check" /\ f.e = CannotSolveBoardError
        /\ f.k < Len(f.entry)
        /\ Len(heap) > Len(stack) + 1

\* C9: a grid SolveIt returns with a nil error extends the grid it was given:
\* nonzero cells are kept, cells that were 0 hold a digit of 1..N.  Stated
\* for main's call and for every recursive call (whose argument is its
\* caller's clone).
C9_ResultExtendsInput ==
    /\ Success => Extends(input, Result)
    /\ \A f \in Frames :
          f.pc = "check" /\ f.e = Nil => Extends(Vals(heap, f.bnew), Vals(heap, f.bn))

\* reached: a success that filled at least two cells
C9_Witness ==
    Success /\ NumUnk(input) >= 2 /\ Result # input

\* C10: the grid SolveIt returns is the valid completion of its argument that
\* is least in row-major lexicographic order.  Stated for main's call and for
\* every recursive call.
LeastCompletion(g, h) ==
    /\ h \in Completions(g)
    /\ \A c \in Completions(g) : LexLeq(h, c)

C10_LeastCompletion ==
    /\ Success => LeastCompletion(input, Result)
    /\ \A f \in Frames :
          f.pc = "check" /\ f.e = Nil => LeastCompletion(Vals(heap, f.bnew), Vals(heap, f.bn))

\* reached: a success on a grid with more than one valid completion
C10_Witness ==
    Success /\ Cardinality(solutions) >= 2

====
